---- MODULE Spec2Model ----
(***************************************************************************)
(* Model of the library build directory resolver of the Nuclex SCons       *)
(* build system (BuildSystem/scons/cplusplus.py), of the package and       *)
(* source directory steps built on it (nuclex.py) and of the archive       *)
(* download (archive.py).                                                  *)
(*                                                                         *)
(* Strings that the code takes apart (directory names, version texts) are  *)
(* sequences of lexical tokens: words, runs of decimal digits, "-" and ".".*)
(* A SCons environment is a function from the keys it holds to values.     *)
(***************************************************************************)
EXTENDS Integers, Sequences, FiniteSets, TLC

VARIABLES
    environment,      \* the SCons construction environment (key -> value)
    platform_system,  \* what platform.system() returns on this host
    compiler_stdout,  \* what the configured compiler prints when it is probed
    library_builds,   \* entries of the library builds directory: [name, isdir]
    last,             \* observable outcome of the latest resolver call
    probe,            \* observable outcome of the latest toolchain probe call
    bin_builds,       \* entries of the 'bin' directory below the package directory
    request,          \* observable outcome of the latest build script step
    url_file,         \* contents of the url list file, as tokens
    servers,          \* how wget.download() ends for each url
    target_isfile,    \* os.path.isfile() of the download target
    source_tree       \* file names os.walk() yields, in its order

\* The state the package, archive and source steps work on
step_vars == <<bin_builds, request, url_file, servers, target_isfile, source_tree>>

vars == <<environment, platform_system, compiler_stdout, library_builds, last, probe, step_vars>>

(***************************************************************************)
(* Bounds of the model                                                     *)
(***************************************************************************)
\* Largest number of entries the library builds directory holds
MaxEntries == 3

\* Largest number of packages a build script adds to one environment
MaxPackages == 2

\* Largest number of files a source directory holds, and of files one
\* add_source_directory call names
MaxFiles == 2

\* Largest number of variant sources the environment accumulates
MaxSources == 3

\* Largest number of tokens (urls and line ends) the url list file holds
MaxText == 4

(***************************************************************************)
(* Python values                                                           *)
(***************************************************************************)
\* Python's None where a string is expected
None == "<None>"

\* The empty string
EmptyString == ""

\* str(n) for the small naturals the model uses
CanonicalNumerals ==
    << "0", "1", "2", "3", "4", "5", "6", "7", "8", "9",
       "10", "11", "12", "13", "14", "15", "16", "17", "18", "19" >>

\* Runs of digits that are not the canonical text of their value
LeadingZeroNumerals == { "00", "01", "02", "07" }

\* Tokens that \d+ matches and that int() accepts
Numerals == { CanonicalNumerals[i] : i \in 1..Len(CanonicalNumerals) }
            \cup LeadingZeroNumerals

IsNumeral(token) == token \in Numerals

\* int() of each run of digits
IntTable ==
    [ token \in Numerals |->
        CASE token = "00" -> 0
          [] token = "01" -> 1
          [] token = "02" -> 2
          [] token = "07" -> 7
          [] OTHER -> (CHOOSE i \in 1..Len(CanonicalNumerals) :
                          CanonicalNumerals[i] = token) - 1 ]

IntOf(token) == IntTable[token]

\* str(n)
StrOf(n) == CanonicalNumerals[n + 1]

\* abs(n)
Abs(n) == IF n < 0 THEN -n ELSE n

\* text.split('.'): the components between the dots; a dot at either end or two
\* adjacent dots give an empty component
RECURSIVE SplitFrom(_, _, _)
SplitFrom(tokens, i, current) ==
    IF i > Len(tokens) THEN << current >>
    ELSE IF tokens[i] = "." THEN << current >> \o SplitFrom(tokens, i + 1, EmptyString)
    ELSE SplitFrom(tokens, i + 1, tokens[i])

Split(tokens) == SplitFrom(tokens, 1, EmptyString)

\* re.search('[0-9][0-9.]*', text): the first digit run and the digits and dots
\* that follow it; << >> stands for "no match"
RECURSIVE VersionRunFrom(_, _)
VersionRunFrom(tokens, i) ==
    IF i > Len(tokens) THEN << >>
    ELSE IF IsNumeral(tokens[i]) \/ tokens[i] = "."
         THEN << tokens[i] >> \o VersionRunFrom(tokens, i + 1)
         ELSE << >>

RECURSIVE SearchVersion(_, _)
SearchVersion(tokens, i) ==
    IF i > Len(tokens) THEN << >>
    ELSE IF IsNumeral(tokens[i]) THEN VersionRunFrom(tokens, i)
    ELSE SearchVersion(tokens, i + 1)

(***************************************************************************)
(* Environment access                                                      *)
(***************************************************************************)
\* 'key' in environment
Has(env, key) == key \in DOMAIN env

\* environment[key] = value
SetItem(env, key, value) == (key :> value) @@ env

\* Outcome of a function call: an exception, or a value (possibly None), and
\* the environment as the call leaves it
Raised(exception, env) ==
    [exc |-> exception, isNone |-> FALSE, val |-> << >>, env |-> env]

Returned(value, env) ==
    [exc |-> "", isNone |-> FALSE, val |-> value, env |-> env]

ReturnedNone(env) ==
    [exc |-> "", isNone |-> TRUE, val |-> << >>, env |-> env]

\* The class of a raised exception, which an except clause selects on
ExceptionType(exception) ==
    IF exception \in { "FileNotFoundError: No C/C++ compiler found",
                       "FileNotFoundError: C/C++ compiler could not be found" }
    THEN "FileNotFoundError"
    ELSE exception

(***************************************************************************)
(* Toolchain identity probe                                                *)
(***************************************************************************)
\* The compiler executable get_compiler_name() picks: [exc, exe]
compiler_executable(env) ==
    IF Has(env, "CXX") THEN
        IF env["CXX"] = "$CC" THEN
            IF Has(env, "CC") THEN [exc |-> "", exe |-> env["CC"]]
            ELSE [exc |-> "KeyError", exe |-> None]
        ELSE [exc |-> "", exe |-> env["CXX"]]
    ELSE IF Has(env, "CC") THEN [exc |-> "", exe |-> env["CC"]]
    ELSE [exc |-> "FileNotFoundError: No C/C++ compiler found", exe |-> None]

\* Variant: the Intel compiler is a family of its own
get_compiler_name_IntelApart(env) ==
    LET picked == compiler_executable(env) IN
    IF picked.exc # "" THEN Raised(picked.exc, env)
    ELSE IF picked.exe = "cl" THEN Returned("msvc", env)
    ELSE IF picked.exe = "gcc" \/ picked.exe = "g++" THEN Returned("gcc", env)
    ELSE IF picked.exe = "clang" \/ picked.exe = "clang++" THEN Returned("clang", env)
    ELSE Returned(picked.exe, env)

get_compiler_name(env) ==
    LET picked == compiler_executable(env) IN
    IF picked.exc # "" THEN Raised(picked.exc, env)
    ELSE IF picked.exe = "cl" \/ picked.exe = "icc" THEN Returned("msvc", env)
    ELSE IF picked.exe = "gcc" \/ picked.exe = "g++" THEN Returned("gcc", env)
    ELSE IF picked.exe = "clang" \/ picked.exe = "clang++" THEN Returned("clang", env)
    ELSE Returned(picked.exe, env)

\* Variant: the version probe looks at CC before CXX
compiler_executable_for_version_CcFirst(env) ==
    IF Has(env, "CC") THEN [exc |-> "", exe |-> env["CC"]]
    ELSE IF Has(env, "CXX") THEN [exc |-> "", exe |-> env["CXX"]]
    ELSE [exc |-> "FileNotFoundError: No C/C++ compiler found", exe |-> None]

\* The compiler executable get_compiler_version() picks, by its own copy of
\* the lookup: [exc, exe]
compiler_executable_for_version(env) ==
    IF Has(env, "CXX") THEN
        IF env["CXX"] = "$CC" THEN
            IF Has(env, "CC") THEN [exc |-> "", exe |-> env["CC"]]
            ELSE [exc |-> "KeyError", exe |-> None]
        ELSE [exc |-> "", exe |-> env["CXX"]]
    ELSE IF Has(env, "CC") THEN [exc |-> "", exe |-> env["CC"]]
    ELSE [exc |-> "FileNotFoundError: No C/C++ compiler found", exe |-> None]

\* The command lines a call handed to subprocess.Popen, added to its outcome
Spawning(commands, outcome) == ("spawned" :> commands) @@ outcome

\* Variant: the version found is returned but not stored
StoreCompilerVersion_Forgetful(env, version) == env

\* environment['COMPILER_VERSION'] = compiler_version.group().split('.')
StoreCompilerVersion(env, version) == SetItem(env, "COMPILER_VERSION", version)

\* stdout is what the spawned compiler prints
get_compiler_version(env, stdout) ==
    IF Has(env, "COMPILER_VERSION")
    THEN Spawning(<< >>, Returned(env["COMPILER_VERSION"], env))
    ELSE
        LET picked == compiler_executable_for_version(env)
            is_msvc == picked.exe = "cl" \/ picked.exe = "icc"
            command == IF is_msvc THEN << picked.exe >>
                       ELSE << picked.exe, "--version" >>
            compiler_version == SearchVersion(stdout, 1)
        IN
        IF picked.exc # "" THEN Spawning(<< >>, Raised(picked.exc, env))
        ELSE IF is_msvc /\ Has(env, "MSVC_VERSION")
             THEN Spawning(<< >>, Returned(Split(env["MSVC_VERSION"]), env))
        ELSE IF compiler_version = << >>
             THEN Spawning(<< command >>, ReturnedNone(env))
        ELSE Spawning(<< command >>,
                      Returned(Split(compiler_version),
                               StoreCompilerVersion(env, Split(compiler_version))))

(***************************************************************************)
(* Build identity encoder                                                  *)
(***************************************************************************)
\* environment['TARGET_ARCH'], or 'amd64' where it is None: [exc, val]
\* (reading a key the environment does not hold raises KeyError)
_get_architecture_or_default(env) ==
    IF ~Has(env, "TARGET_ARCH") THEN [exc |-> "KeyError", val |-> None]
    ELSE IF env["TARGET_ARCH"] = None THEN [exc |-> "", val |-> "amd64"]
    ELSE [exc |-> "", val |-> env["TARGET_ARCH"]]

\* The "is this a debug build" test the functions repeat
is_debug_build(env) == IF Has(env, "DEBUG") THEN env["DEBUG"] ELSE FALSE

\* The name as tokens. major_text and minor_text are str() of the version
\* arguments; minor_text is None where the argument is None
_make_build_directory_name(env, system, compiler_name, major_text, minor_text) ==
    LET platform_name == IF system = "Windows" THEN "windows" ELSE "linux"
        architecture == _get_architecture_or_default(env)
        build_configuration == IF is_debug_build(env) THEN "debug" ELSE "release"
        compiler == << compiler_name, major_text >>
                    \o (IF minor_text = None THEN << >> ELSE << ".", minor_text >>)
    IN
    IF architecture.exc # "" THEN Raised(architecture.exc, env)
    ELSE Returned(<< platform_name, "-" >> \o compiler
                  \o << "-", architecture.val, "-", build_configuration >>, env)

\* The name of the build directory for the probed compiler. The version
\* components go to the encoder as the texts the probe found
_get_build_directory_name(env, system, stdout) ==
    LET compiler_name == get_compiler_name(env)
        compiler_version == get_compiler_version(env, stdout)
    IN
    IF compiler_name.exc # "" THEN Raised(compiler_name.exc, env)
    ELSE IF compiler_version.exc # "" THEN Raised(compiler_version.exc, env)
    ELSE IF compiler_version.isNone
         THEN Raised("FileNotFoundError: C/C++ compiler could not be found",
                     compiler_version.env)
    ELSE IF Len(compiler_version.val) < 2
         THEN Raised("IndexError", compiler_version.env)
    ELSE _make_build_directory_name(compiler_version.env, system, compiler_name.val,
                                    compiler_version.val[1], compiler_version.val[2])

\* Variant: only the active compiler's own tag is compatible
_get_compatible_compiler_tags_OwnFamily(env, system) ==
    << get_compiler_name(env).val >>

\* Compiler tags whose libraries can be mixed with the active compiler's
_get_compatible_compiler_tags(env, system) ==
    IF system = "Windows" THEN << "msvc", "icc" >> ELSE << "gcc", "clang" >>

\* Variant: a debug build accepts debug libraries only
CompatibleConfigurations_DebugOnly(debug) ==
    IF debug THEN << "debug" >> ELSE << "release" >>

\* "Debug builds can link both debug and release libraries", "Release builds
\* can only link release libraries": the alternatives of group 6
CompatibleConfigurations(debug) ==
    IF debug THEN << "debug", "release" >> ELSE << "release" >>

\* The regular expression
\*   ^(platform)-(tag|tag)(\d+|\d+\.\d+)-(architecture)($|-(config|config)$)
\* as the record of its variable parts; it is stored in the environment
_build_library_name_regex(env, system) ==
    IF Has(env, "COMPATIBLE_LIBRARY_NAME_REGEX")
    THEN Returned(env["COMPATIBLE_LIBRARY_NAME_REGEX"], env)
    ELSE
        LET architecture == _get_architecture_or_default(env)
            libraryRegex ==
                [ platform |-> IF system = "Windows" THEN "windows" ELSE "linux",
                  tags |-> _get_compatible_compiler_tags(env, system),
                  architecture |-> architecture.val,
                  configurations |-> CompatibleConfigurations(is_debug_build(env)) ]
        IN
        IF architecture.exc # "" THEN Raised(architecture.exc, env)
        ELSE Returned(libraryRegex,
                      SetItem(env, "COMPATIBLE_LIBRARY_NAME_REGEX", libraryRegex))

\* Members of a tuple
Range(seq) == { seq[i] : i \in 1..Len(seq) }

\* re.match(regex, name): the groups, with group 3 the version text and
\* group 6 the build configuration (None where the name ends after the
\* architecture)
NoMatch == [matched |-> FALSE, g3 |-> << >>, g6 |-> None]

MatchTail(regex, name, k, version) ==
    IF Len(name) >= k + 1 /\ name[k] = "-" /\ name[k + 1] = regex.architecture
    THEN IF Len(name) = k + 1
         THEN [matched |-> TRUE, g3 |-> version, g6 |-> None]
         ELSE IF /\ Len(name) = k + 3
                 /\ name[k + 2] = "-"
                 /\ name[k + 3] \in Range(regex.configurations)
         THEN [matched |-> TRUE, g3 |-> version, g6 |-> name[k + 3]]
         ELSE NoMatch
    ELSE NoMatch

re_match(regex, name) ==
    IF /\ Len(name) >= 4
       /\ name[1] = regex.platform
       /\ name[2] = "-"
       /\ name[3] \in Range(regex.tags)
       /\ IsNumeral(name[4])
    THEN LET short == MatchTail(regex, name, 5, << name[4] >>) IN
         IF short.matched THEN short
         ELSE IF Len(name) >= 6 /\ name[5] = "." /\ IsNumeral(name[6])
              THEN MatchTail(regex, name, 7, << name[4], ".", name[6] >>)
              ELSE NoMatch
    ELSE NoMatch

(***************************************************************************)
(* File system                                                             *)
(***************************************************************************)
\* os.path.join(directory, name)
path_join(directory, name) == [directory |-> directory, name |-> name]

\* os.path.isdir(os.path.join(library_builds_path, name))
isdir(entries, name) == [name |-> name, isdir |-> TRUE] \in entries

(***************************************************************************)
(* Artifact directory resolver                                             *)
(***************************************************************************)
\* What a resolver call lets the outside see, in order: the lines it prints
\* and, last, how it ends
PrintEvent(level, library_builds_path, needed, fallback) ==
    [ event |-> "print", level |-> level, library |-> library_builds_path,
      needed |-> needed, fallback |-> fallback ]

ReturnEvent(path) == [event |-> "return", path |-> path]

ReturnNoneEvent == [event |-> "return None"]

RaiseEvent(exception) == [event |-> "raise", exception |-> exception]

\* How a resolver call ends: the events, the returned path (hasPath), the exact
\* name it looked for (hasName) and the environment it leaves
Outcome(events, hasPath, path, hasName, name, env) ==
    [ events |-> events, hasPath |-> hasPath, path |-> path,
      hasName |-> hasName, matching_directory_name |-> name, env |-> env ]

NoPath == path_join(None, << >>)

Failure(exception, env) ==
    Outcome(<< RaiseEvent(exception) >>, FALSE, NoPath, FALSE, << >>, env)

\* State of the scan before the first accepted directory
NoClosest ==
    [ found |-> FALSE, closest_major_difference |-> 0, closest_minor_version |-> 0,
      closest_build_type |-> None, closest_directory |-> << >> ]

\* Variant: the difference of the major versions, sign kept
MajorDifference_Signed(major_version, major_compiler_version) ==
    major_version - major_compiler_version

\* major_difference of a scanned directory
MajorDifference(major_version, major_compiler_version) ==
    Abs(major_version - major_compiler_version)

\* Variant: among equal major differences the lower minor version wins
IsCloserVersion_LowerMinor(major_difference, minor_version, closest) ==
    \/ major_difference < closest.closest_major_difference
    \/ /\ major_difference = closest.closest_major_difference
       /\ minor_version < closest.closest_minor_version

\* "this version is closer to the closest version we have found up until now"
IsCloserVersion(major_difference, minor_version, closest) ==
    \/ major_difference < closest.closest_major_difference
    \/ /\ major_difference = closest.closest_major_difference
       /\ minor_version > closest.closest_minor_version

\* the scanned directory has the version of the closest one found so far
IsEqualVersion(major_difference, minor_version, closest) ==
    /\ major_difference = closest.closest_major_difference
    /\ minor_version = closest.closest_minor_version

\* Variant: the build type test inverted
IsFittingBuildType_Inverted(debug, build_type) ==
    \/ debug /\ build_type = "release"
    \/ ~debug /\ build_type = "debug"

\* "the build type (debug/release) is a better fit"
IsFittingBuildType(debug, build_type) ==
    \/ debug /\ build_type = "debug"
    \/ ~debug /\ build_type = "release"

\* Variant: a name without build configuration counts as a debug build
ScanEntry_UntaggedIsDebug(closest, fileOrDir, regex, entries, major_compiler_version, debug) ==
    LET parts == re_match(regex, fileOrDir)
        version == Split(parts.g3)
        major_version == IntOf(version[1])
        minor_version == IF Len(version) = 1 THEN 0 ELSE IntOf(version[2])
        build_type == IF parts.g6 = None THEN "debug" ELSE parts.g6
        major_difference == MajorDifference(major_version, major_compiler_version)
        is_closer_version ==
            IF ~closest.found THEN TRUE
            ELSE IF IsEqualVersion(major_difference, minor_version, closest)
                 THEN IsFittingBuildType(debug, build_type)
                 ELSE IsCloserVersion(major_difference, minor_version, closest)
    IN
    IF parts.matched /\ isdir(entries, fileOrDir) /\ is_closer_version
    THEN [ found |-> TRUE, closest_major_difference |-> major_difference,
           closest_minor_version |-> minor_version,
           closest_build_type |-> build_type, closest_directory |-> fileOrDir ]
    ELSE closest

\* Variant: the scan does not ask whether the entry is a directory
ScanEntry_AnyEntry(closest, fileOrDir, regex, entries, major_compiler_version, debug) ==
    LET parts == re_match(regex, fileOrDir)
        version == Split(parts.g3)
        major_version == IntOf(version[1])
        minor_version == IF Len(version) = 1 THEN 0 ELSE IntOf(version[2])
        build_type == IF parts.g6 = None THEN "release" ELSE parts.g6
        major_difference == MajorDifference(major_version, major_compiler_version)
        is_closer_version ==
            IF ~closest.found THEN TRUE
            ELSE IF IsEqualVersion(major_difference, minor_version, closest)
                 THEN IsFittingBuildType(debug, build_type)
                 ELSE IsCloserVersion(major_difference, minor_version, closest)
    IN
    IF parts.matched /\ is_closer_version
    THEN [ found |-> TRUE, closest_major_difference |-> major_difference,
           closest_minor_version |-> minor_version,
           closest_build_type |-> build_type, closest_directory |-> fileOrDir ]
    ELSE closest

\* One iteration of the loop over os.listdir(library_builds_path)
ScanEntry(closest, fileOrDir, regex, entries, major_compiler_version, debug) ==
    LET parts == re_match(regex, fileOrDir)
        version == Split(parts.g3)
        major_version == IntOf(version[1])
        minor_version == IF Len(version) = 1 THEN 0 ELSE IntOf(version[2])
        build_type == IF parts.g6 = None THEN "release" ELSE parts.g6
        major_difference == MajorDifference(major_version, major_compiler_version)
        is_closer_version ==
            IF ~closest.found THEN TRUE
            ELSE IF IsEqualVersion(major_difference, minor_version, closest)
                 THEN IsFittingBuildType(debug, build_type)
                 ELSE IsCloserVersion(major_difference, minor_version, closest)
    IN
    IF parts.matched /\ isdir(entries, fileOrDir) /\ is_closer_version
    THEN [ found |-> TRUE, closest_major_difference |-> major_difference,
           closest_minor_version |-> minor_version,
           closest_build_type |-> build_type, closest_directory |-> fileOrDir ]
    ELSE closest

\* The loop, over the first n names of the listing
RECURSIVE ScanListing(_, _, _, _, _, _)
ScanListing(listing, n, regex, entries, major_compiler_version, debug) ==
    IF n = 0 THEN NoClosest
    ELSE LET before == ScanListing(listing, n - 1, regex, entries,
                                   major_compiler_version, debug)
         IN ScanEntry(before, listing[n], regex, entries,
                      major_compiler_version, debug)

\* The exact directory exists: it is returned without a word
ExactMatchOutcome(library_builds_path, matching_directory_name, env) ==
    Outcome(<< ReturnEvent(path_join(library_builds_path, matching_directory_name)) >>,
            TRUE, path_join(library_builds_path, matching_directory_name),
            TRUE, matching_directory_name, env)

\* Variant: the closest match is used without the warning
ClosestMatchOutcome_Silent(library_builds_path, matching_directory_name, closest_directory, env) ==
    Outcome(<< ReturnEvent(path_join(library_builds_path, closest_directory)) >>,
            TRUE, path_join(library_builds_path, closest_directory),
            TRUE, matching_directory_name, env)

\* "If a close match was found, display a warning and use it"
ClosestMatchOutcome(library_builds_path, matching_directory_name, closest_directory, env) ==
    Outcome(<< PrintEvent("warning", library_builds_path, matching_directory_name,
                          closest_directory),
               ReturnEvent(path_join(library_builds_path, closest_directory)) >>,
            TRUE, path_join(library_builds_path, closest_directory),
            TRUE, matching_directory_name, env)

\* "No compiler-specified binaries, give the 'lib' dir a final try"
LibFallbackOutcome(library_builds_path, matching_directory_name, env) ==
    Outcome(<< PrintEvent("warning", library_builds_path, matching_directory_name,
                          << "lib" >>),
               ReturnEvent(path_join(library_builds_path, << "lib" >>)) >>,
            TRUE, path_join(library_builds_path, << "lib" >>),
            TRUE, matching_directory_name, env)

\* Variant: the error names the 'lib' candidate instead of the needed directory
GiveUpOutcome_NamesCandidate(library_builds_path, matching_directory_name, env) ==
    Outcome(<< PrintEvent("error", library_builds_path, << "lib" >>, << >>),
               ReturnNoneEvent >>,
            FALSE, NoPath, TRUE, matching_directory_name, env)

\* "We failed."
GiveUpOutcome(library_builds_path, matching_directory_name, env) ==
    Outcome(<< PrintEvent("error", library_builds_path, matching_directory_name, << >>),
               ReturnNoneEvent >>,
            FALSE, NoPath, TRUE, matching_directory_name, env)

\* Variant: the scan runs before the exact directory is looked for
SearchLibraryDirectory_ClosestFirst(env, system, library_builds_path, entries, listing, matching_directory_name, major_compiler_version) ==
    LET compatible_library_regex == _build_library_name_regex(env, system)
        closest == ScanListing(listing, Len(listing), compatible_library_regex.val,
                               entries, major_compiler_version, is_debug_build(env))
    IN
    IF compatible_library_regex.exc # ""
    THEN Failure(compatible_library_regex.exc, env)
    ELSE IF closest.found
    THEN ClosestMatchOutcome(library_builds_path, matching_directory_name,
                             closest.closest_directory, compatible_library_regex.env)
    ELSE IF isdir(entries, matching_directory_name)
    THEN ExactMatchOutcome(library_builds_path, matching_directory_name,
                           compatible_library_regex.env)
    ELSE IF isdir(entries, << "lib" >>)
    THEN LibFallbackOutcome(library_builds_path, matching_directory_name,
                            compatible_library_regex.env)
    ELSE GiveUpOutcome(library_builds_path, matching_directory_name,
                       compatible_library_regex.env)

\* Variant: the 'lib' directory is tried before the scan
SearchLibraryDirectory_LibFirst(env, system, library_builds_path, entries, listing, matching_directory_name, major_compiler_version) ==
    LET compatible_library_regex == _build_library_name_regex(env, system)
        closest == ScanListing(listing, Len(listing), compatible_library_regex.val,
                               entries, major_compiler_version, is_debug_build(env))
    IN
    IF isdir(entries, matching_directory_name)
    THEN ExactMatchOutcome(library_builds_path, matching_directory_name, env)
    ELSE IF compatible_library_regex.exc # ""
    THEN Failure(compatible_library_regex.exc, env)
    ELSE IF isdir(entries, << "lib" >>)
    THEN LibFallbackOutcome(library_builds_path, matching_directory_name,
                            compatible_library_regex.env)
    ELSE IF closest.found
    THEN ClosestMatchOutcome(library_builds_path, matching_directory_name,
                             closest.closest_directory, compatible_library_regex.env)
    ELSE GiveUpOutcome(library_builds_path, matching_directory_name,
                       compatible_library_regex.env)

\* The part of the resolver after the exact name is known
SearchLibraryDirectory(env, system, library_builds_path, entries, listing, matching_directory_name, major_compiler_version) ==
    LET compatible_library_regex == _build_library_name_regex(env, system)
        closest == ScanListing(listing, Len(listing), compatible_library_regex.val,
                               entries, major_compiler_version, is_debug_build(env))
    IN
    IF isdir(entries, matching_directory_name)
    THEN ExactMatchOutcome(library_builds_path, matching_directory_name, env)
    ELSE IF compatible_library_regex.exc # ""
    THEN Failure(compatible_library_regex.exc, env)
    ELSE IF closest.found
    THEN ClosestMatchOutcome(library_builds_path, matching_directory_name,
                             closest.closest_directory, compatible_library_regex.env)
    ELSE IF isdir(entries, << "lib" >>)
    THEN LibFallbackOutcome(library_builds_path, matching_directory_name,
                            compatible_library_regex.env)
    ELSE GiveUpOutcome(library_builds_path, matching_directory_name,
                       compatible_library_regex.env)

\* listing is the order in which os.listdir enumerates entries
find_or_guess_library_directory(env, system, stdout, library_builds_path, entries, listing) ==
    LET compiler_name == get_compiler_name(env)
        compiler_version == get_compiler_version(env, stdout)
        version == compiler_version.val
        probed == compiler_version.env
        matching_directory_name ==
            _make_build_directory_name(probed, system, compiler_name.val,
                                       StrOf(IntOf(version[1])), StrOf(IntOf(version[2])))
    IN
    IF compiler_name.exc # "" THEN Failure(compiler_name.exc, env)
    ELSE IF compiler_version.exc # "" THEN Failure(compiler_version.exc, env)
    ELSE IF compiler_version.isNone
    THEN Failure("FileNotFoundError: C/C++ compiler could not be found", env)
    ELSE IF ~IsNumeral(version[1]) THEN Failure("ValueError", probed)
    ELSE IF Len(version) < 2 THEN Failure("IndexError", probed)
    ELSE IF ~IsNumeral(version[2]) THEN Failure("ValueError", probed)
    ELSE IF matching_directory_name.exc # ""
    THEN Failure(matching_directory_name.exc, probed)
    ELSE SearchLibraryDirectory(probed, system, library_builds_path, entries, listing,
                                matching_directory_name.val, IntOf(version[1]))

(***************************************************************************)
(* Packages                                                                *)
(***************************************************************************)
\* environment.Append(key = [items]): a list in the environment grows at its end
environment_Append(env, key, items) ==
    SetItem(env, key, (IF Has(env, key) THEN env[key] ELSE << >>) \o items)

_add_include_directory(env, include_directory) ==
    environment_Append(env, "CPPPATH", << include_directory >>)

_add_library_directory(env, library_directory) ==
    environment_Append(env, "LIBPATH", << library_directory >>)

_add_library(env, library_name) == environment_Append(env, "LIBS", << library_name >>)

\* The include directory of a package: 'Include', 'include' or a directory
\* named like the package; [isNone, val]
find_or_guess_include_directory(package_path, entries) ==
    LET package_name == << package_path[Len(package_path)] >> IN
    IF isdir(entries, << "Include" >>)
    THEN [isNone |-> FALSE, val |-> path_join(package_path, << "Include" >>)]
    ELSE IF isdir(entries, << "include" >>)
    THEN [isNone |-> FALSE, val |-> path_join(package_path, << "include" >>)]
    ELSE IF isdir(entries, package_name)
    THEN [isNone |-> FALSE, val |-> path_join(package_path, package_name)]
    ELSE [isNone |-> TRUE, val |-> NoPath]

\* A resolver call ended in an exception
HasRaised(outcome) ==
    outcome.events # << >> /\ outcome.events[Len(outcome.events)].event = "raise"

RaisedException(outcome) == outcome.events[Len(outcome.events)].exception

\* What os.listdir() makes of the call on a path that names no directory:
\* it raises, unless the call had ended in an exception before
ListdirOutcome(exists, outcome) ==
    IF exists \/ HasRaised(outcome) THEN outcome
    ELSE Failure("FileNotFoundError: os.listdir", outcome.env)

\* The resolver on a path that may not name a directory: os.listdir() then
\* raises once the exact directory was not found and the pattern was built
find_or_guess_library_directory_at(env, system, stdout, library_builds_path, exists, entries, listing) ==
    ListdirOutcome(exists,
                   find_or_guess_library_directory(
                       env, system, stdout, library_builds_path,
                       IF exists THEN entries ELSE {},
                       IF exists THEN listing ELSE << >>))

\* One resolver call as add_package makes it, for the trace of the step
ResolverCall(library_builds_path, outcome) ==
    [ call |-> "find_or_guess_library_directory", path |-> library_builds_path,
      events |-> outcome.events ]

\* How a build script step ends: an exception or not, the environment it
\* leaves and the resolver calls it made
StepOutcome(exception, env, trace) == [exc |-> exception, env |-> env, trace |-> trace]

\* The names add_package links, from its third argument
LibrariesToAdd(universal_package_name, universal_library_names) ==
    IF universal_library_names.kind = "None" THEN << universal_package_name >>
    ELSE IF universal_library_names.kind = "list" THEN universal_library_names.names
    ELSE << universal_library_names.name >>

RECURSIVE AddLibraries(_, _)
AddLibraries(env, library_names) ==
    IF library_names = << >> THEN env
    ELSE AddLibraries(_add_library(env, Head(library_names)), Tail(library_names))

\* Variant: a package whose libraries are not found in the package layout
\* is given up without looking at the project layout
RetryWithProjectLayout_Never(env, system, stdout, package_directory, bin_exists, bin_entries, bin_listing) ==
    GiveUpOutcome(package_directory, << >>, env)

\* "Retrying library with project layout instead of package layout..."
RetryWithProjectLayout(env, system, stdout, package_directory, bin_exists, bin_entries, bin_listing) ==
    find_or_guess_library_directory_at(env, system, stdout,
                                       path_join(package_directory, << "bin" >>),
                                       bin_exists, bin_entries, bin_listing)

\* The library directory was found: it and the libraries are added
AddResolvedPackage(resolved, library_names, trace) ==
    StepOutcome("", AddLibraries(_add_library_directory(resolved.env, resolved.path),
                                 library_names),
                trace)

\* The rest of add_package once the second resolver call has ended
AfterRetry(first_call, bin_directory, second, library_names) ==
    LET trace == << first_call, ResolverCall(bin_directory, second) >> IN
    IF HasRaised(second) THEN StepOutcome(RaisedException(second), second.env, trace)
    ELSE IF second.hasPath THEN AddResolvedPackage(second, library_names, trace)
    ELSE StepOutcome("FileNotFoundError: Could not find library directory for package",
                     second.env, trace)

\* The rest of add_package once the first resolver call has ended
AfterFirstCall(first, system, stdout, package_directory, library_names, bin_exists, bin_entries, bin_listing) ==
    IF HasRaised(first)
    THEN StepOutcome(RaisedException(first), first.env,
                     << ResolverCall(package_directory, first) >>)
    ELSE IF first.hasPath
    THEN AddResolvedPackage(first, library_names,
                            << ResolverCall(package_directory, first) >>)
    ELSE AfterRetry(ResolverCall(package_directory, first),
                    path_join(package_directory, << "bin" >>),
                    RetryWithProjectLayout(first.env, system, stdout, package_directory,
                                           bin_exists, bin_entries, bin_listing),
                    library_names)

_add_cplusplus_package(env, system, stdout, universal_package_name, universal_library_names, entries, listing, bin_entries, bin_listing) ==
    IF ~Has(env, "REFERENCES_DIRECTORY") THEN StepOutcome("KeyError", env, << >>)
    ELSE
    LET package_directory == << "..", env["REFERENCES_DIRECTORY"], universal_package_name >>
        include_directory == find_or_guess_include_directory(package_directory, entries)
    IN
    IF include_directory.isNone
    THEN StepOutcome("FileNotFoundError: Could not find include directory for package",
                     env, << >>)
    ELSE AfterFirstCall(
             find_or_guess_library_directory(
                 _add_include_directory(env, include_directory.val), system, stdout,
                 package_directory, entries, listing),
             system, stdout, package_directory,
             LibrariesToAdd(universal_package_name, universal_library_names),
             isdir(entries, << "bin" >>), bin_entries, bin_listing)

(***************************************************************************)
(* Source files                                                            *)
(***************************************************************************)
\* File names and paths are sequences of tokens too: words, "/" and, after
\* the last dot, single characters, so that an extension can be looked for
\* inside another one.

\* Position of the last "." of a file name, 0 where it holds none
LastDot(file_name) ==
    LET dots == { i \in 1..Len(file_name) : file_name[i] = "." } IN
    IF dots = {} THEN 0 ELSE CHOOSE i \in dots : \A j \in dots : j <= i

\* os.path.splitext(file_name)[1]: the text from the last dot on, empty
\* where only dots come before it
file_extension(file_name) ==
    LET dot == LastDot(file_name) IN
    IF dot = 0 \/ (\A i \in 1..(dot - 1) : file_name[i] = ".") THEN << >>
    ELSE SubSeq(file_name, dot, Len(file_name))

\* needle in text, for two strings
IsSubstring(needle, text) ==
    \E i \in 0..(Len(text) - Len(needle)) :
        SubSeq(text, i + 1, i + Len(needle)) = needle

\* text.startswith(prefix)
startswith(text, prefix) ==
    Len(prefix) <= Len(text) /\ SubSeq(text, 1, Len(prefix)) = prefix

\* os.path.join(directory, name) for two relative paths
os_path_join(directory, name) == directory \o << "/" >> \o name

\* The extension lists of enumerate_headers and enumerate_sources
header_file_extensions ==
    << << ".", "h" >>, << ".", "H" >>, << ".", "h", "p", "p" >>, << ".", "h", "h" >>,
       << ".", "h", "x", "x" >>, << ".", "i", "n", "l" >>, << ".", "i", "n", "c" >> >>

source_file_extensions ==
    << << ".", "c" >>, << ".", "C" >>, << ".", "c", "p", "p" >>, << ".", "c", "c" >>,
       << ".", "c", "x", "x" >> >>

\* The test both functions apply to a file name
IsInteresting(file_name, extensions) ==
    /\ file_extension(file_name) # << >>
    /\ \E i \in 1..Len(extensions) : IsSubstring(file_extension(file_name), extensions[i])

\* The loop over os.walk(): walk holds [root, file_name] in the order of the
\* walk; variant_directory is << None >> where the argument is left out
RECURSIVE EnumerateWalk(_, _, _)
EnumerateWalk(walk, extensions, variant_directory) ==
    IF walk = << >> THEN << >>
    ELSE LET file == Head(walk)
             path == os_path_join(file.root, file.file_name)
         IN (IF IsInteresting(file.file_name, extensions)
             THEN << IF variant_directory = << None >> THEN path
                     ELSE os_path_join(variant_directory, path) >>
             ELSE << >>)
            \o EnumerateWalk(Tail(walk), extensions, variant_directory)

enumerate_headers(walk, variant_directory) ==
    EnumerateWalk(walk, header_file_extensions, variant_directory)

enumerate_sources(walk, variant_directory) ==
    EnumerateWalk(walk, source_file_extensions, variant_directory)

\* The name of the variant directory: the build directory name, with the
\* suffix of the environment where it has one
_get_variant_directory_name(env, system, stdout) ==
    LET name == _get_build_directory_name(env, system, stdout) IN
    IF name.exc # "" \/ ~Has(env, "INTERMEDIATE_SUFFIX") THEN name
    ELSE Returned(name.val \o << "-", env["INTERMEDIATE_SUFFIX"] >>, name.env)

\* The variant paths of the files, in order
VariantPaths(intermediate_build_directory, sources) ==
    [ i \in 1..Len(sources) |-> os_path_join(intermediate_build_directory, sources[i]) ]

\* Index of the first file that does not start with the source directory,
\* 0 where every file does
FirstOutside(source_directory, sources) ==
    LET outside == { i \in 1..Len(sources) : ~startswith(sources[i], source_directory) } IN
    IF outside = {} THEN 0 ELSE CHOOSE i \in outside : \A j \in outside : i <= j

\* The list the loop appends to: the list object of the environment itself
\* where the environment holds one, so that what is appended before an
\* exception stays in the environment; a new list otherwise
AppendedBeforeRaise(env, variant_sources, appended) ==
    IF Has(env, "_VARIANT_SOURCES")
    THEN SetItem(env, "_VARIANT_SOURCES", variant_sources \o appended)
    ELSE env

\* environment.add_source_directory(source_directory, sources); sources is
\* [isNone, files]
_add_cplusplus_source_directory(env, system, stdout, source_directory, sources, walk) ==
    LET variant_sources == IF Has(env, "_VARIANT_SOURCES") THEN env["_VARIANT_SOURCES"]
                           ELSE << >>
        variant_directory_name == _get_variant_directory_name(env, system, stdout)
        intermediate_build_directory ==
            os_path_join(<< env["INTERMEDIATE_DIRECTORY"] >>, variant_directory_name.val)
        files == IF sources.isNone THEN enumerate_sources(walk, << None >>)
                 ELSE sources.files
        bad == FirstOutside(source_directory, files)
    IN
    IF ~Has(env, "INTERMEDIATE_DIRECTORY") THEN Raised("KeyError", env)
    ELSE IF variant_directory_name.exc # ""
         THEN Raised(variant_directory_name.exc, variant_directory_name.env)
    ELSE IF bad # 0
         THEN Raised("ValueError",
                     AppendedBeforeRaise(
                         variant_directory_name.env, variant_sources,
                         VariantPaths(intermediate_build_directory,
                                      SubSeq(files, 1, bad - 1))))
    ELSE Returned(<< >>,
                  SetItem(variant_directory_name.env, "_VARIANT_SOURCES",
                          variant_sources
                          \o VariantPaths(intermediate_build_directory, files)))

(***************************************************************************)
(* Archive download                                                        *)
(***************************************************************************)
\* The text of a url list file is a sequence of tokens: "\r", "\n" and
\* pieces of url text; a line is the sequence of the pieces it holds.

\* text.replace('\r', '')
replace_cr(text) ==
    LET Kept(token) == token # "\r" IN SelectSeq(text, Kept)

\* text.split('\n'): the pieces between the line feeds, empty ones included
RECURSIVE split_lf(_, _)
split_lf(text, line) ==
    IF text = << >> THEN << line >>
    ELSE IF Head(text) = "\n" THEN << line >> \o split_lf(Tail(text), << >>)
    ELSE split_lf(Tail(text), Append(line, Head(text)))

\* The lines of a text file that are not empty
split_lines(text_file_contents) ==
    LET NotEmpty(line) == Len(line) # 0 IN
    SelectSeq(split_lf(replace_cr(text_file_contents), << >>), NotEmpty)

\* How wget.download(url, out = target) ends at the given servers: it raises
\* (and saves nothing), it returns having saved the target, or it returns
\* without the target being there. A url no server knows fails
wget_download(url, download_servers, isfile) ==
    LET ending == IF Len(url) = 1 /\ url[1] \in DOMAIN download_servers
                  THEN download_servers[url[1]] ELSE "raises"
    IN [ raised |-> ending = "raises",
         isfile |-> isfile \/ ending = "saves" ]

\* Variant: any download that returns ends the function, whether or not
\* the target file is there
AttemptSucceeded_AnyReturn(download) == ~download.raised

\* The attempt ends the function: the download returned and
\* os.path.isfile(target) holds
AttemptSucceeded(download) == ~download.raised /\ download.isfile

\* The loop over the urls: [exc, attempted, isfile]
RECURSIVE TryUrls(_, _, _, _)
TryUrls(urls, download_servers, isfile, attempted) ==
    IF urls = << >>
    THEN [ exc |-> "FileNotFoundError: Could not download file",
           attempted |-> attempted, isfile |-> isfile ]
    ELSE LET download == wget_download(Head(urls), download_servers, isfile) IN
         IF AttemptSucceeded(download)
         THEN [ exc |-> "", attempted |-> Append(attempted, Head(urls)),
                isfile |-> download.isfile ]
         ELSE TryUrls(Tail(urls), download_servers, download.isfile,
                      Append(attempted, Head(urls)))

download_url_in_urlfile(text_file_contents, download_servers, isfile) ==
    TryUrls(split_lines(text_file_contents), download_servers, isfile, << >>)

(***************************************************************************)
(* The build script's view: one environment, one library builds directory  *)
(***************************************************************************)
\* The directory whose builds are searched (library_builds_path)
LibraryBuildsPath == "ThirdParty/package"

\* A directory name in the build directory convention, as tokens
BuildName(platform_name, compiler, version, architecture, configuration) ==
    << platform_name, "-", compiler >> \o version \o << "-", architecture >>
    \o configuration

Directory(name) == [name |-> name, isdir |-> TRUE]

File(name) == [name |-> name, isdir |-> FALSE]

\* Entries the library builds directory may hold
EntryUniverse ==
    { Directory(BuildName("linux", "gcc", << "7", ".", "1" >>, "amd64", << "-", "release" >>)),
      Directory(BuildName("linux", "gcc", << "7", ".", "1" >>, "amd64", << "-", "debug" >>)),
      Directory(BuildName("linux", "gcc", << "7", ".", "1" >>, "amd64", << >>)),
      Directory(BuildName("linux", "clang", << "7", ".", "1" >>, "amd64", << "-", "release" >>)),
      Directory(BuildName("linux", "gcc", << "7", ".", "2" >>, "amd64", << "-", "debug" >>)),
      Directory(BuildName("linux", "gcc", << "7", ".", "2" >>, "amd64", << "-", "release" >>)),
      Directory(BuildName("linux", "gcc", << "6" >>, "amd64", << >>)),
      Directory(BuildName("linux", "clang", << "8", ".", "2" >>, "amd64", << "-", "release" >>)),
      Directory(BuildName("linux", "gcc", << "8", ".", "0" >>, "amd64", << "-", "debug" >>)),
      Directory(BuildName("linux", "gcc", << "7", ".", "0" >>, "x86", << "-", "release" >>)),
      File(BuildName("linux", "gcc", << "7", ".", "3" >>, "amd64", << "-", "release" >>)),
      Directory(BuildName("windows", "msvc", << "7", ".", "1" >>, "amd64", << "-", "release" >>)),
      Directory(<< "lib" >>) }

\* What the probed compiler may print: a GCC banner, a banner without any
\* digit, and a banner whose version has a single component
CompilerOutputs ==
    { << "g++", "(GCC)", "7", ".", "1", ".", "0" >>,
      << "g++:", "fatal", "error" >>,
      << "g++", "(GCC)", "7" >> }

\* Values the build settings take
DebugSettings == { TRUE, FALSE }

ArchitectureSettings == { None, "x86" }

\* Environments as create_cplusplus_environment() and the command line leave them
InitialEnvironments ==
    LET tools == ("CXX" :> "g++") @@ ("CC" :> "gcc") IN
    { ("TARGET_ARCH" :> a) @@ tools : a \in ArchitectureSettings }
    \cup { ("DEBUG" :> d) @@ ("TARGET_ARCH" :> a) @@ tools :
             d \in DebugSettings, a \in ArchitectureSettings }

\* No resolver call has been made since the settings last changed
NoCall ==
    [ called |-> FALSE, events |-> << >>, hasPath |-> FALSE, path |-> NoPath,
      hasName |-> FALSE, matching_directory_name |-> << >> ]

\* No probe call has been made
NoProbe ==
    [ op |-> "", exc |-> "", isNone |-> FALSE, val |-> << >>, spawned |-> << >>,
      known |-> FALSE, version |-> << >>, again |-> FALSE ]

\* No build script step has been made
NoRequest ==
    [ op |-> "", args |-> << >>, exc |-> "", trace |-> << >>, result |-> << >>,
      before |-> << >> ]

\* The state of a build script that adds no package, archive or sources
NoSteps ==
    /\ bin_builds = {}
    /\ request = NoRequest
    /\ url_file = << >>
    /\ servers = << >>
    /\ target_isfile = FALSE
    /\ source_tree = << >>

\* Orders in which os.listdir may enumerate the entries
Listings(entries) ==
    LET names == { e.name : e \in entries }
        n == Cardinality(names)
    IN { listing \in [1..n -> names] :
            \A i, j \in 1..n : listing[i] = listing[j] => i = j }

Init ==
    /\ environment \in InitialEnvironments
    /\ platform_system = "Linux"
    /\ compiler_stdout \in CompilerOutputs
    /\ library_builds \in { entries \in SUBSET EntryUniverse :
                              Cardinality(entries) <= MaxEntries }
    /\ last = NoCall
    /\ probe = NoProbe
    /\ NoSteps

\* A build script calls find_or_guess_library_directory(environment, path)
FindOrGuessLibraryDirectory ==
    \E listing \in Listings(library_builds) :
        \E outcome \in { find_or_guess_library_directory(
                             environment, platform_system, compiler_stdout,
                             LibraryBuildsPath, library_builds, listing) } :
            /\ environment' = outcome.env
            /\ last' = [ called |-> TRUE, events |-> outcome.events,
                         hasPath |-> outcome.hasPath, path |-> outcome.path,
                         hasName |-> outcome.hasName,
                         matching_directory_name |-> outcome.matching_directory_name ]
            /\ UNCHANGED << platform_system, compiler_stdout, library_builds, probe, step_vars >>

\* A build script assigns environment['DEBUG']
SetDebug ==
    \E d \in DebugSettings :
        /\ is_debug_build(environment) # d
        /\ environment' = SetItem(environment, "DEBUG", d)
        /\ last' = NoCall
        /\ UNCHANGED << platform_system, compiler_stdout, library_builds, probe, step_vars >>

\* A build script assigns environment['TARGET_ARCH']
SetTargetArch ==
    \E a \in ArchitectureSettings :
        /\ environment["TARGET_ARCH"] # a
        /\ environment' = SetItem(environment, "TARGET_ARCH", a)
        /\ last' = NoCall
        /\ UNCHANGED << platform_system, compiler_stdout, library_builds, probe, step_vars >>

Next ==
    \/ FindOrGuessLibraryDirectory
    \/ SetDebug
    \/ SetTargetArch

Spec == Init /\ [][Next]_vars

(***************************************************************************)
(* The toolchain probe on its own                                          *)
(***************************************************************************)
\* What CXX and CC may name; "tcc" stands for a compiler of no known family
Executables == { "cl", "icc", "gcc", "g++", "clang", "clang++", "tcc" }

CxxSettings == Executables \cup { "$CC" }

CcSettings == { "gcc", "cl", "tcc" }

MsvcVersions == { << "14", ".", "1" >> }

\* Environments with and without CXX, CC, MSVC_VERSION
ProbeEnvironments ==
    LET base == ("TARGET_ARCH" :> None)
        withCxx == { base } \cup { ("CXX" :> x) @@ base : x \in CxxSettings }
        withCc == withCxx \cup { ("CC" :> c) @@ env : c \in CcSettings, env \in withCxx }
    IN withCc \cup { ("MSVC_VERSION" :> v) @@ env : v \in MsvcVersions, env \in withCc }

ProbeEntryUniverse ==
    { Directory(BuildName("linux", "gcc", << "7", ".", "1" >>, "amd64", << "-", "release" >>)),
      Directory(<< "lib" >>) }

InitProbe ==
    /\ environment \in ProbeEnvironments
    /\ platform_system \in { "Linux", "Windows" }
    /\ compiler_stdout \in CompilerOutputs
    /\ library_builds \in { entries \in SUBSET ProbeEntryUniverse :
                              Cardinality(entries) <= MaxEntries }
    /\ last = NoCall
    /\ probe = NoProbe
    /\ NoSteps

\* A build script calls get_compiler_name(environment)
GetCompilerName ==
    \E outcome \in { get_compiler_name(environment) } :
        /\ probe' = [ op |-> "get_compiler_name", exc |-> outcome.exc,
                      isNone |-> outcome.isNone, val |-> outcome.val,
                      spawned |-> << >>, known |-> probe.known,
                      version |-> probe.version, again |-> FALSE ]
        /\ environment' = outcome.env
        /\ UNCHANGED << platform_system, compiler_stdout, library_builds, last, step_vars >>

\* A build script calls get_compiler_version(environment)
GetCompilerVersion ==
    \E outcome \in { get_compiler_version(environment, compiler_stdout) } :
        LET succeeded == outcome.exc = "" /\ ~outcome.isNone IN
        /\ probe' = [ op |-> "get_compiler_version", exc |-> outcome.exc,
                      isNone |-> outcome.isNone, val |-> outcome.val,
                      spawned |-> outcome.spawned,
                      known |-> probe.known \/ succeeded,
                      version |-> IF probe.known THEN probe.version
                                  ELSE IF succeeded THEN outcome.val ELSE << >>,
                      again |-> probe.known ]
        /\ environment' = outcome.env
        /\ UNCHANGED << platform_system, compiler_stdout, library_builds, last, step_vars >>

\* A build script calls environment.get_build_directory_name()
GetBuildDirectoryName ==
    \E outcome \in { _get_build_directory_name(environment, platform_system,
                                                compiler_stdout) } :
        /\ probe' = [ op |-> "get_build_directory_name", exc |-> outcome.exc,
                      isNone |-> outcome.isNone, val |-> outcome.val,
                      spawned |-> << >>, known |-> probe.known,
                      version |-> probe.version, again |-> FALSE ]
        /\ environment' = outcome.env
        /\ UNCHANGED << platform_system, compiler_stdout, library_builds, last, step_vars >>

NextProbe ==
    \/ GetCompilerName
    \/ GetCompilerVersion
    \/ GetBuildDirectoryName
    \/ FindOrGuessLibraryDirectory

SpecProbe == InitProbe /\ [][NextProbe]_vars

(***************************************************************************)
(* The resolver under the compilers and hosts it distinguishes             *)
(***************************************************************************)
FamilyCompilers == { "g++", "clang++", "cl", "icc", "tcc" }

FamilyEnvironments ==
    { ("CXX" :> x) @@ ("CC" :> "gcc") @@ ("TARGET_ARCH" :> None) : x \in FamilyCompilers }

FamilyEntryUniverse ==
    { Directory(BuildName("linux", "gcc", << "7", ".", "1" >>, "amd64", << "-", "release" >>)),
      Directory(BuildName("linux", "clang", << "7", ".", "2" >>, "amd64", << "-", "release" >>)),
      Directory(BuildName("linux", "tcc", << "7", ".", "2" >>, "amd64", << "-", "release" >>)),
      Directory(BuildName("windows", "msvc", << "7", ".", "1" >>, "amd64", << "-", "release" >>)),
      Directory(BuildName("windows", "icc", << "7", ".", "2" >>, "amd64", << "-", "release" >>)),
      Directory(BuildName("windows", "gcc", << "7", ".", "2" >>, "amd64", << "-", "release" >>)),
      File(BuildName("linux", "gcc", << "7", ".", "3" >>, "amd64", << "-", "release" >>)),
      Directory(<< "lib" >>) }

InitFamilies ==
    /\ environment \in FamilyEnvironments
    /\ platform_system \in { "Linux", "Windows" }
    /\ compiler_stdout = << "g++", "(GCC)", "7", ".", "1", ".", "0" >>
    /\ library_builds \in { entries \in SUBSET FamilyEntryUniverse :
                              Cardinality(entries) <= MaxEntries }
    /\ last = NoCall
    /\ probe = NoProbe
    /\ NoSteps

NextFamilies ==
    \/ FindOrGuessLibraryDirectory
    \/ SetDebug

SpecFamilies == InitFamilies /\ [][NextFamilies]_vars

(***************************************************************************)
(* The resolver over directories of older, newer and shortened versions    *)
(***************************************************************************)
ScanEnvironments ==
    LET tools == ("CXX" :> "g++") @@ ("CC" :> "gcc") @@ ("TARGET_ARCH" :> None) IN
    { tools } \cup { ("DEBUG" :> d) @@ tools : d \in DebugSettings }

ScanEntryUniverse ==
    { Directory(BuildName("linux", "gcc", << "6" >>, "amd64", << >>)),
      Directory(BuildName("linux", "clang", << "6", ".", "0" >>, "amd64", << "-", "debug" >>)),
      Directory(BuildName("linux", "gcc", << "8" >>, "amd64", << "-", "release" >>)),
      Directory(BuildName("linux", "gcc", << "8", ".", "0" >>, "amd64", << "-", "debug" >>)),
      Directory(BuildName("linux", "clang", << "6", ".", "1" >>, "amd64", << >>)),
      Directory(BuildName("linux", "gcc", << "5", ".", "4" >>, "amd64", << "-", "release" >>)) }

InitScan ==
    /\ environment \in ScanEnvironments
    /\ platform_system = "Linux"
    /\ compiler_stdout = << "g++", "(GCC)", "7", ".", "1", ".", "0" >>
    /\ library_builds \in { entries \in SUBSET ScanEntryUniverse :
                              Cardinality(entries) <= MaxEntries }
    /\ last = NoCall
    /\ probe = NoProbe
    /\ NoSteps

NextScan ==
    \/ FindOrGuessLibraryDirectory
    \/ SetDebug

SpecScan == InitScan /\ [][NextScan]_vars

(***************************************************************************)
(* A build script that adds packages                                       *)
(***************************************************************************)
PackageEnvironments ==
    { ("CXX" :> "g++") @@ ("CC" :> "gcc") @@ ("TARGET_ARCH" :> None)
      @@ ("REFERENCES_DIRECTORY" :> "ThirdParty") }

\* Entries a package directory may hold
PackageEntryUniverse ==
    { Directory(<< "Include" >>),
      Directory(<< "gtest" >>),
      Directory(BuildName("linux", "gcc", << "7", ".", "1" >>, "amd64", << "-", "release" >>)),
      Directory(BuildName("linux", "gcc", << "7", ".", "2" >>, "amd64", << "-", "release" >>)),
      Directory(<< "lib" >>),
      Directory(<< "bin" >>) }

\* Entries its 'bin' directory may hold
BinEntryUniverse ==
    { Directory(BuildName("linux", "gcc", << "7", ".", "1" >>, "amd64", << "-", "release" >>)),
      Directory(<< "lib" >>) }

PackageNames == { "gtest" }

\* The third argument of add_package: None, one name or a list of names
LibraryNameArguments ==
    { [kind |-> "None"],
      [kind |-> "str", name |-> "gtest_main"],
      [kind |-> "list", names |-> << "gtest", "gtest_main" >>] }

InitPackage ==
    /\ environment \in PackageEnvironments
    /\ platform_system = "Linux"
    /\ compiler_stdout \in CompilerOutputs
    /\ library_builds \in { entries \in SUBSET PackageEntryUniverse :
                              Cardinality(entries) <= MaxEntries }
    /\ last = NoCall
    /\ probe = NoProbe
    /\ bin_builds \in { entries \in SUBSET BinEntryUniverse :
                          entries # {} => isdir(library_builds, << "bin" >>) }
    /\ request = NoRequest
    /\ url_file = << >>
    /\ servers = << >>
    /\ target_isfile = FALSE
    /\ source_tree = << >>

\* Number of include directories the environment holds
IncludeCount(env) == IF Has(env, "CPPPATH") THEN Len(env["CPPPATH"]) ELSE 0

\* A build script calls environment.add_package(name, library_names)
AddPackage ==
    \E universal_package_name \in PackageNames,
       universal_library_names \in LibraryNameArguments,
       listing \in Listings(library_builds),
       bin_listing \in Listings(bin_builds) :
        \E outcome \in { _add_cplusplus_package(
                              environment, platform_system, compiler_stdout,
                              universal_package_name, universal_library_names,
                              library_builds, listing, bin_builds, bin_listing) } :
            /\ IncludeCount(environment) < MaxPackages
            /\ environment' = outcome.env
            /\ request' = [ op |-> "add_package",
                            args |-> << universal_package_name, universal_library_names >>,
                            exc |-> outcome.exc, trace |-> outcome.trace,
                            result |-> << >>, before |-> environment ]
            /\ UNCHANGED << platform_system, compiler_stdout, library_builds, last, probe >>
            /\ UNCHANGED << bin_builds, url_file, servers, target_isfile, source_tree >>

NextPackage == AddPackage

SpecPackage == InitPackage /\ [][NextPackage]_vars

(***************************************************************************)
(* Source directories: os.walk() over a directory of files                 *)
(***************************************************************************)
\* File names a source directory may hold
FileNameUniverse ==
    { << "main", ".", "c", "p", "p" >>,
      << "util", ".", "c" >>,
      << "old", ".", "c", "p" >>,
      << "notes", "." >>,
      << "api", ".", "h" >>,
      << "gen", ".", "i", "n" >>,
      << "impl", ".", "i", "n", "l" >>,
      << "readme", ".", "t", "x", "t" >>,
      << "Makefile" >>,
      << ".", "c" >> }

\* The directory that is walked
SourceDirectories == { << "Source" >> }

\* Orders in which os.walk() may yield the files of a directory
Walks(root, file_names) ==
    LET n == Cardinality(file_names) IN
    { [ i \in 1..n |-> [root |-> root, file_name |-> order[i]] ] :
        order \in { o \in [1..n -> file_names] :
                      \A i, j \in 1..n : o[i] = o[j] => i = j } }

SourceTrees ==
    UNION { Walks(<< "Source" >>, file_names) :
              file_names \in { f \in SUBSET FileNameUniverse : Cardinality(f) <= MaxFiles } }

InitEnumerate ==
    /\ environment \in { ("CXX" :> "g++") @@ ("CC" :> "gcc") @@ ("TARGET_ARCH" :> None) }
    /\ platform_system = "Linux"
    /\ compiler_stdout = << "g++", "(GCC)", "7", ".", "1", ".", "0" >>
    /\ library_builds = {}
    /\ last = NoCall
    /\ probe = NoProbe
    /\ bin_builds = {}
    /\ request = NoRequest
    /\ url_file = << >>
    /\ servers = << >>
    /\ target_isfile = FALSE
    /\ source_tree \in SourceTrees

\* A build script calls cplusplus.enumerate_sources(source_directory)
EnumerateSources ==
    \E source_directory \in SourceDirectories :
        /\ request' = [ op |-> "enumerate_sources", args |-> << source_directory >>,
                        exc |-> "", trace |-> << >>,
                        result |-> enumerate_sources(source_tree, << None >>),
                        before |-> environment ]
        /\ UNCHANGED << environment, platform_system, compiler_stdout, library_builds,
                        last, probe >>
        /\ UNCHANGED << bin_builds, url_file, servers, target_isfile, source_tree >>

\* A build script calls cplusplus.enumerate_headers(header_directory)
EnumerateHeaders ==
    \E header_directory \in SourceDirectories :
        /\ request' = [ op |-> "enumerate_headers", args |-> << header_directory >>,
                        exc |-> "", trace |-> << >>,
                        result |-> enumerate_headers(source_tree, << None >>),
                        before |-> environment ]
        /\ UNCHANGED << environment, platform_system, compiler_stdout, library_builds,
                        last, probe >>
        /\ UNCHANGED << bin_builds, url_file, servers, target_isfile, source_tree >>

NextEnumerate ==
    \/ EnumerateSources
    \/ EnumerateHeaders

SpecEnumerate == InitEnumerate /\ [][NextEnumerate]_vars

(***************************************************************************)
(* A build script that adds source directories                             *)
(***************************************************************************)
SourceEnvironments ==
    LET tools == ("CXX" :> "g++") @@ ("CC" :> "gcc") @@ ("TARGET_ARCH" :> None) IN
    { tools,
      ("INTERMEDIATE_DIRECTORY" :> "obj") @@ tools,
      ("INTERMEDIATE_DIRECTORY" :> "obj") @@ ("INTERMEDIATE_SUFFIX" :> "tests") @@ tools }

\* Files a build script names explicitly
SourcePathUniverse ==
    { << "Source", "/", "main", ".", "c", "p", "p" >>,
      << "Source", "/", "util", ".", "c" >>,
      << "Source", "2", "/", "b", ".", "c" >>,
      << "Other", "/", "c", ".", "c", "p", "p" >> }

\* The sources argument of add_source_directory: None or a list of files
SourcesArguments ==
    { [isNone |-> TRUE, files |-> << >>] }
    \cup { [isNone |-> FALSE, files |-> files] :
             files \in UNION { [1..n -> SourcePathUniverse] : n \in 0..MaxFiles } }

InitSources ==
    /\ environment \in SourceEnvironments
    /\ platform_system = "Linux"
    /\ compiler_stdout \in CompilerOutputs
    /\ library_builds = {}
    /\ last = NoCall
    /\ probe = NoProbe
    /\ bin_builds = {}
    /\ request = NoRequest
    /\ url_file = << >>
    /\ servers = << >>
    /\ target_isfile = FALSE
    /\ source_tree \in Walks(<< "Source" >>, { << "main", ".", "c", "p", "p" >>,
                                               << "api", ".", "h" >> })

\* Number of variant sources the environment holds
SourceCount(env) ==
    IF Has(env, "_VARIANT_SOURCES") THEN Len(env["_VARIANT_SOURCES"]) ELSE 0

\* A build script calls environment.add_source_directory(source_directory, sources)
AddSourceDirectory ==
    \E source_directory \in SourceDirectories, sources \in SourcesArguments :
        \E outcome \in { _add_cplusplus_source_directory(
                              environment, platform_system, compiler_stdout,
                              source_directory, sources, source_tree) } :
            /\ SourceCount(environment) < MaxSources
            /\ environment' = outcome.env
            /\ request' = [ op |-> "add_source_directory",
                            args |-> << source_directory, sources >>,
                            exc |-> outcome.exc, trace |-> << >>,
                            result |-> << >>, before |-> environment ]
            /\ UNCHANGED << platform_system, compiler_stdout, library_builds, last, probe >>
            /\ UNCHANGED << bin_builds, url_file, servers, target_isfile, source_tree >>

NextSources == AddSourceDirectory

SpecSources == InitSources /\ [][NextSources]_vars

(***************************************************************************)
(* A build that downloads an archive named in a url list file              *)
(***************************************************************************)
\* Pieces of url text
UrlTokens == { "http://a/x.tar", "http://b/x.tar" }

\* Tokens of a url list file
TextTokens == UrlTokens \cup { "\r", "\n" }

\* How a download from a server may end
DownloadEndings == { "raises", "saves", "returns without file" }

InitArchive ==
    /\ environment \in { ("CXX" :> "g++") @@ ("CC" :> "gcc") @@ ("TARGET_ARCH" :> None) }
    /\ platform_system = "Linux"
    /\ compiler_stdout = << "g++", "(GCC)", "7", ".", "1", ".", "0" >>
    /\ library_builds = {}
    /\ last = NoCall
    /\ probe = NoProbe
    /\ bin_builds = {}
    /\ request = NoRequest
    /\ url_file \in UNION { [1..n -> TextTokens] : n \in 0..MaxText }
    /\ servers \in [UrlTokens -> DownloadEndings]
    /\ target_isfile = FALSE
    /\ source_tree = << >>

\* The build runs the download action for a target that is not there
DownloadUrlInUrlfile ==
    \E outcome \in { download_url_in_urlfile(url_file, servers, target_isfile) } :
        /\ ~target_isfile
        /\ request' = [ op |-> "download_url_in_urlfile", args |-> << url_file >>,
                        exc |-> outcome.exc, trace |-> outcome.attempted,
                        result |-> << >>, before |-> environment ]
        /\ target_isfile' = outcome.isfile
        /\ UNCHANGED << environment, platform_system, compiler_stdout, library_builds,
                        last, probe >>
        /\ UNCHANGED << bin_builds, url_file, servers, source_tree >>

NextArchive == DownloadUrlInUrlfile

SpecArchive == InitArchive /\ [][NextArchive]_vars

(***************************************************************************)
(* Version texts: a build script that asks both for the build directory    *)
(* name and for the library directory                                      *)
(***************************************************************************)
\* Hosts, their compilers and what these print: versions of three
\* components, of one component, with a dot at the end and with a leading
\* zero
Toolchains ==
    { [ system |-> "Linux", cxx |-> "g++", stdout |-> << "g++", "(GCC)", "7", ".", "1", ".", "0" >> ],
      [ system |-> "Linux", cxx |-> "g++", stdout |-> << "g++", "(GCC)", "9" >> ],
      [ system |-> "Linux", cxx |-> "g++", stdout |-> << "g++", "(GCC)", "9", "." >> ],
      [ system |-> "Linux", cxx |-> "clang++", stdout |-> << "clang", "version", "6", ".", "0", ".", "0" >> ],
      [ system |-> "Windows", cxx |-> "cl",
        stdout |-> << "Compiler", "Version", "19", ".", "00", ".", "1" >> ],
      [ system |-> "Windows", cxx |-> "cl",
        stdout |-> << "Compiler", "Version", "19", ".", "10", ".", "1" >> ] }

VersionEntryUniverse ==
    { Directory(BuildName("linux", "gcc", << "7", ".", "1" >>, "amd64", << "-", "release" >>)),
      Directory(BuildName("linux", "gcc", << "9" >>, "amd64", << "-", "release" >>)),
      Directory(BuildName("windows", "msvc", << "19", ".", "0" >>, "amd64", << "-", "release" >>)),
      Directory(BuildName("windows", "msvc", << "19", ".", "00" >>, "amd64", << "-", "release" >>)),
      Directory(BuildName("windows", "msvc", << "19", ".", "10" >>, "amd64", << "-", "release" >>)) }

InitVersions ==
    /\ \E toolchain \in Toolchains :
          /\ environment = ("CXX" :> toolchain.cxx) @@ ("TARGET_ARCH" :> None)
          /\ platform_system = toolchain.system
          /\ compiler_stdout = toolchain.stdout
    /\ library_builds \in { entries \in SUBSET VersionEntryUniverse :
                              Cardinality(entries) <= MaxEntries }
    /\ last = NoCall
    /\ probe = NoProbe
    /\ NoSteps

NextVersions ==
    \/ FindOrGuessLibraryDirectory
    \/ GetBuildDirectoryName

SpecVersions == InitVersions /\ [][NextVersions]_vars

(***************************************************************************)
(* Properties of the resolver                                              *)
(*                                                                         *)
(* The formulas read the latest call from `last` and the state it left.    *)
(* Between a call and the next change of a build setting the environment   *)
(* holds the pattern the scan used and the version the probe found.        *)
(***************************************************************************)
\* The exact directory the latest call looked for exists
ExactDirectoryExists == isdir(library_builds, last.matching_directory_name)

ExactPath == path_join(LibraryBuildsPath, last.matching_directory_name)

LibPath == path_join(LibraryBuildsPath, << "lib" >>)

\* The latest call went past the exact directory and scanned the listing
ScanRan == last.called /\ last.hasName /\ ~ExactDirectoryExists

\* The compatibility pattern the scan of the latest call used
PatternInUse == environment["COMPATIBLE_LIBRARY_NAME_REGEX"]

\* Directories of the root whose names match the pattern the scan used
MatchingDirectories ==
    { e.name : e \in { x \in library_builds :
                         x.isdir /\ re_match(PatternInUse, x.name).matched } }

\* The same with either build configuration allowed
MatchingAnyConfiguration ==
    { e.name : e \in { x \in library_builds :
        /\ x.isdir
        /\ re_match([PatternInUse EXCEPT !.configurations = << "debug", "release" >>],
                    x.name).matched } }

\* Fields of a matching directory name, read off the naming convention
CandidateMajor(name) == IntOf(name[4])

CandidateMinor(name) == IF name[5] = "." THEN IntOf(name[6]) ELSE 0

CandidateBuildType(name) ==
    IF name[Len(name)] = "debug" THEN "debug" ELSE "release"

ActiveMajor == IntOf(environment["COMPILER_VERSION"][1])

Distance(name) == Abs(CandidateMajor(name) - ActiveMajor)

RequestedBuildType == IF is_debug_build(environment) THEN "debug" ELSE "release"

\* Closest by major version, then highest minor version, within a set of names
ClosestByMajor(names) ==
    { m \in names : \A o \in names : Distance(m) <= Distance(o) }

BestByVersion(names) ==
    { m \in ClosestByMajor(names) :
        \A o \in ClosestByMajor(names) : CandidateMinor(m) >= CandidateMinor(o) }

ReturnedName == last.path.name

\* The latest call once more, with another order of enumeration
Replay(listing) ==
    find_or_guess_library_directory(environment, platform_system, compiler_stdout,
                                    LibraryBuildsPath, library_builds, listing)

\* Positions of the warnings among the events of the latest call
Warnings ==
    { i \in 1..Len(last.events) :
        last.events[i].event = "print" /\ last.events[i].level = "warning" }

\* C1 Exact match precedence: if the directory with the exact encoded name exists
\* the call returns exactly that path, whatever else the root holds.
C1_ExactMatchPrecedence ==
    (last.called /\ last.hasName /\ ExactDirectoryExists)
        => (last.hasPath /\ last.path = ExactPath)

C1_Witness ==
    /\ last.called /\ last.hasName /\ ExactDirectoryExists
    /\ last.path = ExactPath
    /\ isdir(library_builds, << "lib" >>)
    /\ \E e \in library_builds :
          /\ e.isdir
          /\ e.name # last.matching_directory_name
          /\ re_match(_build_library_name_regex(environment, platform_system).val,
                      e.name).matched

\* C2 Monotonic closeness: without an exact directory, the returned directory has
\* the least |candidate major - active major| of all matching directories,
\* whatever their minor versions and the order of the listing.
C2_MonotonicCloseness ==
    (ScanRan /\ MatchingDirectories # {})
        => /\ last.hasPath
           /\ ReturnedName \in MatchingDirectories
           /\ \A m \in MatchingDirectories : Distance(ReturnedName) <= Distance(m)

C2_Witness ==
    /\ ScanRan /\ last.hasPath
    /\ ActiveMajor = 7
    /\ { CandidateMajor(m) : m \in MatchingDirectories } = { 6, 7, 8 }
    /\ CandidateMajor(ReturnedName) = 7

\* C3 Minor maximisation: among the matching directories that tie on the least
\* major difference the returned one has the greatest minor version.
C3_MinorMaximisation ==
    (ScanRan /\ MatchingDirectories # {})
        => /\ last.hasPath
           /\ ReturnedName \in BestByVersion(MatchingDirectories)

C3_Witness ==
    /\ ScanRan /\ last.hasPath
    /\ \E m \in ClosestByMajor(MatchingDirectories) :
          CandidateMinor(m) < CandidateMinor(ReturnedName)
    /\ \E m \in MatchingDirectories : Distance(m) > Distance(ReturnedName)

\* C4 Build-config preference: among the matching directories that tie on major
\* difference and minor version the returned one has the requested build
\* configuration whenever one of them has it.
C4_BuildConfigPreference ==
    (ScanRan /\ MatchingDirectories # {})
        => /\ last.hasPath
           /\ ReturnedName \in BestByVersion(MatchingDirectories)
           /\ (\E m \in BestByVersion(MatchingDirectories) :
                  CandidateBuildType(m) = RequestedBuildType)
              => CandidateBuildType(ReturnedName) = RequestedBuildType

C4_Witness ==
    /\ ScanRan /\ last.hasPath
    /\ is_debug_build(environment)
    /\ CandidateBuildType(ReturnedName) = "debug"
    /\ \E m \in BestByVersion(MatchingDirectories) :
          /\ CandidateBuildType(m) = "release"
          /\ CandidateMajor(m) = CandidateMajor(ReturnedName)

\* C5 Determinism: for fixed entries and a fixed identity the returned path is the
\* same for every order in which the entries are enumerated.
C5_Determinism ==
    (last.called /\ last.hasName)
        => \A listing \in Listings(library_builds) :
              /\ Replay(listing).hasPath = last.hasPath
              /\ Replay(listing).path = last.path

\* C6 Release never links debug: a call for a release build never returns a
\* directory whose build configuration segment is 'debug'.
C6_ReleaseNeverLinksDebug ==
    (last.called /\ last.hasPath /\ ~is_debug_build(environment))
        => ReturnedName[Len(ReturnedName)] # "debug"

\* C7 Debug may link release: in a debug build without an exact directory, if the
\* matching directories are all release-tagged or untagged the call returns the
\* closest of them, with a warning, not 'lib' and not a failure.
C7_DebugMayLinkRelease ==
    ( /\ ScanRan
      /\ is_debug_build(environment)
      /\ MatchingAnyConfiguration # {}
      /\ \A m \in MatchingAnyConfiguration : CandidateBuildType(m) = "release" )
        => /\ last.hasPath
           /\ ReturnedName \in BestByVersion(MatchingAnyConfiguration)

C7_Witness ==
    /\ ScanRan /\ last.hasPath
    /\ is_debug_build(environment)
    /\ isdir(library_builds, << "lib" >>)
    /\ ReturnedName \in MatchingAnyConfiguration
    /\ \A m \in MatchingAnyConfiguration : CandidateBuildType(m) = "release"
    /\ ReturnedName[Len(ReturnedName)] = "release"
    /\ \E m \in MatchingAnyConfiguration : Distance(m) > Distance(ReturnedName)

\* C8 Generic fallback: without an exact and without a matching directory, a 'lib'
\* directory is returned after a warning; 'lib' is never returned while an exact
\* or a matching directory exists.
C8_GenericFallback ==
    /\ (ScanRan /\ MatchingDirectories = {} /\ isdir(library_builds, << "lib" >>))
          => /\ last.hasPath /\ last.path = LibPath
             /\ last.events =
                   << PrintEvent("warning", LibraryBuildsPath,
                                 last.matching_directory_name, << "lib" >>),
                      ReturnEvent(LibPath) >>
    /\ (last.called /\ last.hasPath /\ last.path = LibPath)
          => (ScanRan /\ MatchingDirectories = {})

C8_Witness ==
    /\ ScanRan /\ last.hasPath /\ last.path = LibPath
    /\ MatchingDirectories = {}
    /\ Cardinality(library_builds) > 1

\* C9 Hard failure: the call yields no path, and an error that names the root
\* directory and the exact name sought, exactly when there is neither the exact
\* directory, nor a matching directory, nor 'lib'; otherwise it yields a path.
C9_HardFailure ==
    (last.called /\ last.hasName)
        => /\ ~last.hasPath <=>
                 /\ ~ExactDirectoryExists
                 /\ MatchingDirectories = {}
                 /\ ~isdir(library_builds, << "lib" >>)
           /\ ~last.hasPath =>
                 last.events =
                    << PrintEvent("error", LibraryBuildsPath,
                                  last.matching_directory_name, << >>),
                       ReturnNoneEvent >>

C9_Witness ==
    /\ last.called /\ last.hasName /\ ~last.hasPath
    /\ library_builds # {}
    /\ last.events[1].library = LibraryBuildsPath
    /\ last.events[1].needed = last.matching_directory_name

\* C10 Visible degradation: a warning naming the expected exact name is printed
\* exactly when the call returns a path other than the exact one, and it is
\* printed before the return; an exact return prints nothing.
C10_VisibleDegradation ==
    last.called
        => /\ (Warnings # {}) <=> (last.hasPath /\ last.path # ExactPath)
           /\ \A i \in Warnings :
                 /\ last.events[i].needed = last.matching_directory_name
                 /\ \E j \in (i + 1)..Len(last.events) :
                       last.events[j] = ReturnEvent(last.path)
           /\ (last.hasPath /\ last.path = ExactPath)
                 => last.events = << ReturnEvent(ExactPath) >>

C10_Witness ==
    /\ last.called /\ last.hasPath
    /\ last.path # ExactPath /\ last.path # LibPath
    /\ Warnings = { 1 }
    /\ last.events[2] = ReturnEvent(last.path)

(***************************************************************************)
(* Properties of the compatibility set and of the encoder                  *)
(***************************************************************************)
\* The latest call returned a directory the scan picked
FuzzyMatchReturned == ScanRan /\ last.hasPath /\ ReturnedName # << "lib" >>

\* The family get_compiler_name() reports for the environment
ActiveFamily == get_compiler_name(environment).val

RecognisedFamilies == { "msvc", "gcc", "clang" }

\* The family and platform a directory name is tagged with
FamilyTag(name) == name[3]

PlatformTag(name) == name[1]

\* C11 Unrecognised family isolation: with a compiler of no recognised family
\* active, a directory the fuzzy scan returns is named for that same family.
C11_UnrecognisedFamilyIsolated ==
    (FuzzyMatchReturned /\ ActiveFamily \notin RecognisedFamilies)
        => FamilyTag(ReturnedName) = ActiveFamily

\* The environment before any pattern was stored in it
WithoutPattern(env) ==
    [ key \in DOMAIN env \ { "COMPATIBLE_LIBRARY_NAME_REGEX" } |-> env[key] ]

\* Names of the root a call would consider with the given compiler active
EligibleFor(env, executable) ==
    LET regex == _build_library_name_regex(SetItem(env, "CXX", executable),
                                           platform_system).val
    IN { e.name : e \in { x \in library_builds :
                             x.isdir /\ re_match(regex, x.name).matched } }

\* The families of the host's platform group
HostGroup == IF platform_system = "Windows" THEN { "msvc", "icc" } ELSE { "gcc", "clang" }

\* C12 Compatibility symmetry: on a non-Windows host a directory is eligible
\* with gcc active exactly when it is eligible with clang active, on Windows
\* the same holds of the msvc and icc executables, and neither an eligible
\* nor a returned directory is named for a family outside the host's group.
C12_CompatibilitySymmetric ==
    /\ \A env \in { environment, WithoutPattern(environment) } :
          /\ EligibleFor(env, "g++") = EligibleFor(env, "clang++")
          /\ EligibleFor(env, "cl") = EligibleFor(env, "icc")
          /\ \A executable \in { "g++", "clang++", "cl", "icc" } :
                \A name \in EligibleFor(env, executable) : FamilyTag(name) \in HostGroup
    /\ FuzzyMatchReturned => FamilyTag(ReturnedName) \in HostGroup

\* With clang active a directory built by gcc was returned, or the reverse
C12_Witness ==
    /\ FuzzyMatchReturned
    /\ ActiveFamily \in { "gcc", "clang" }
    /\ FamilyTag(ReturnedName) \in { "gcc", "clang" } \ { ActiveFamily }

\* Fields of an encoded name as the pattern's groups give them
ParsedVersion(name) == Split(re_match(PatternInUse, name).g3)

\* C13 Encoder/parser round trip: the name the resolver encodes for the
\* environment, with the minor version present, matches the compatibility
\* pattern of the same environment, and the fields parsed from it are the
\* host platform, the probed family and version, the architecture and the
\* build configuration of the environment.
C13_EncoderParserRoundTrip ==
    (ScanRan /\ Has(environment, "COMPATIBLE_LIBRARY_NAME_REGEX")) =>
        LET name == last.matching_directory_name
            parts == re_match(PatternInUse, name)
        IN /\ parts.matched
           /\ PlatformTag(name) = (IF platform_system = "Windows" THEN "windows" ELSE "linux")
           /\ FamilyTag(name) = ActiveFamily
           /\ IntOf(ParsedVersion(name)[1]) = ActiveMajor
           /\ IntOf(ParsedVersion(name)[2]) = IntOf(environment["COMPILER_VERSION"][2])
           /\ name[Len(name) - 2] = _get_architecture_or_default(environment).val
           /\ parts.g6 = RequestedBuildType

(***************************************************************************)
(* Properties of the toolchain probe                                       *)
(***************************************************************************)
\* A compiler is configured: CXX names one, or CC does where CXX is absent
\* or is the alias "$CC"
CompilerConfigured ==
    \/ Has(environment, "CXX") /\ environment["CXX"] # "$CC"
    \/ Has(environment, "CC")

\* The executable the resolution order names
ConfiguredExecutable ==
    IF Has(environment, "CXX") /\ environment["CXX"] # "$CC"
    THEN environment["CXX"] ELSE environment["CC"]

NothingConfigured == ~Has(environment, "CXX") /\ ~Has(environment, "CC")

\* The family the probe reports where the only compiler key is CXX
FamilyOf(executable) == get_compiler_name(("CXX" :> executable)).val

\* C14 Compiler resolution order: get_compiler_name and get_compiler_version
\* take CXX, take CC where CXX is "$CC" or absent, raise FileNotFoundError
\* 'No C/C++ compiler found' where neither key is present, and pick the same
\* executable (or raise the same exception) for the same environment.
C14_CompilerResolutionOrder ==
    /\ compiler_executable(environment) = compiler_executable_for_version(environment)
    /\ probe.op = "get_compiler_name" =>
          /\ CompilerConfigured =>
                probe.exc = "" /\ probe.val = FamilyOf(ConfiguredExecutable)
          /\ NothingConfigured =>
                probe.exc = "FileNotFoundError: No C/C++ compiler found"
    /\ probe.op = "get_compiler_version" =>
          /\ CompilerConfigured =>
                /\ probe.exc = ""
                /\ probe.spawned # << >> => probe.spawned[1][1] = ConfiguredExecutable
          /\ NothingConfigured =>
                probe.exc = "FileNotFoundError: No C/C++ compiler found"

\* The version probe spawned the CC executable because CXX is "$CC"
C14_Witness ==
    /\ probe.op = "get_compiler_version"
    /\ Has(environment, "CXX") /\ environment["CXX"] = "$CC"
    /\ Has(environment, "CC") /\ environment["CC"] = "tcc"
    /\ probe.spawned = << << "tcc", "--version" >> >>

\* C15 Family classification: get_compiler_name maps cl and icc to 'msvc',
\* gcc and g++ to 'gcc', clang and clang++ to 'clang', and returns any
\* other executable name unchanged.
C15_FamilyClassification ==
    (probe.op = "get_compiler_name" /\ probe.exc = "") =>
        LET executable == ConfiguredExecutable IN
        /\ executable \in { "cl", "icc" } => probe.val = "msvc"
        /\ executable \in { "gcc", "g++" } => probe.val = "gcc"
        /\ executable \in { "clang", "clang++" } => probe.val = "clang"
        /\ executable \notin { "cl", "icc", "gcc", "g++", "clang", "clang++" } =>
              probe.val = executable

\* The Intel compiler was reported as the msvc family
C15_Witness ==
    /\ probe.op = "get_compiler_name"
    /\ CompilerConfigured
    /\ ConfiguredExecutable = "icc"
    /\ probe.val = "msvc"

\* The latest probe call was a get_compiler_version call that returned a version
VersionReturned ==
    probe.op = "get_compiler_version" /\ probe.exc = "" /\ ~probe.isNone

VersionStored ==
    Has(environment, "COMPILER_VERSION") /\ environment["COMPILER_VERSION"] = probe.val

\* A call that follows a successful one returns its value and spawns nothing
LaterCallsAreFree ==
    /\ (probe.op = "get_compiler_version" /\ probe.again) =>
          /\ VersionReturned
          /\ probe.val = probe.version
          /\ probe.spawned = << >>
    /\ Has(environment, "COMPILER_VERSION") =>
          \A stdout \in CompilerOutputs :
              get_compiler_version(environment, stdout)
                  = Spawning(<< >>, Returned(environment["COMPILER_VERSION"], environment))

\* C16 Version memoisation, as stated: after any successful
\* get_compiler_version call COMPILER_VERSION holds the returned version, and
\* a later call returns the same value without spawning a subprocess.
C16_StoredAfterAnySuccess ==
    /\ VersionReturned => VersionStored
    /\ LaterCallsAreFree

\* C16 Version memoisation, amended: a successful call that spawned the
\* compiler stores the version in COMPILER_VERSION; a successful call that
\* stores nothing is one for cl or icc that read MSVC_VERSION and spawned
\* nothing; either way a later call returns the same value without spawning
\* a subprocess.
C16_VersionMemoisation ==
    /\ (VersionReturned /\ probe.spawned # << >>) => VersionStored
    /\ (VersionReturned /\ ~VersionStored) =>
          /\ ConfiguredExecutable \in { "cl", "icc" }
          /\ Has(environment, "MSVC_VERSION")
          /\ probe.val = Split(environment["MSVC_VERSION"])
          /\ probe.spawned = << >>
    /\ LaterCallsAreFree

\* A second call returned the stored version of a spawned first call
C16_Witness ==
    /\ probe.op = "get_compiler_version" /\ probe.again
    /\ VersionStored
    /\ probe.val = << "7", "1", "0" >>
    /\ probe.spawned = << >>

\* The compiler is configured, prints no version and no version is known
\* from elsewhere
VersionUnparseable ==
    /\ CompilerConfigured
    /\ SearchVersion(compiler_stdout, 1) = << >>
    /\ ~Has(environment, "COMPILER_VERSION")
    /\ ~(ConfiguredExecutable \in { "cl", "icc" } /\ Has(environment, "MSVC_VERSION"))

\* The failure of a missing compiler
ToolchainNotFound == "FileNotFoundError: No C/C++ compiler found"

\* C17 Unparseable version is a hard stop distinct from a missing compiler:
\* where the compiler prints no version, find_or_guess_library_directory and
\* get_build_directory_name raise, they return no path or name, and the
\* exception is of another class than the one of the missing compiler.
C17_UnparseableVersionDistinct ==
    VersionUnparseable =>
        /\ last.called =>
              /\ ~last.hasPath /\ ~last.hasName
              /\ Len(last.events) = 1 /\ last.events[1].event = "raise"
              /\ ExceptionType(last.events[1].exception) # ExceptionType(ToolchainNotFound)
        /\ probe.op = "get_build_directory_name" =>
              /\ probe.exc # ""
              /\ ExceptionType(probe.exc) # ExceptionType(ToolchainNotFound)

(***************************************************************************)
(* Properties of the scan                                                  *)
(***************************************************************************)
\* The architecture the environment asks for
ActiveArchitecture ==
    IF environment["TARGET_ARCH"] = None THEN "amd64" ELSE environment["TARGET_ARCH"]

\* The architecture a directory name is tagged with
ArchitectureTag(name) ==
    IF name[Len(name)] \in { "debug", "release" }
    THEN name[Len(name) - 2] ELSE name[Len(name)]

HostPlatformTag == IF platform_system = "Windows" THEN "windows" ELSE "linux"

\* C18 Architecture default: the name the resolver encodes and the pattern
\* its scan matches with carry 'amd64' where TARGET_ARCH is not set, and the
\* value of TARGET_ARCH, unchanged, where it is set.
C18_ArchitectureDefault ==
    /\ (last.called /\ last.hasName) =>
          ArchitectureTag(last.matching_directory_name) = ActiveArchitecture
    /\ ScanRan => PatternInUse.architecture = ActiveArchitecture

\* C19 Platform and architecture are fixed in fuzzy matching: a directory the
\* scan returns carries the host's platform tag and the active architecture,
\* and a family of the compatibility set.
C19_PlatformArchitectureFixed ==
    FuzzyMatchReturned =>
        /\ PlatformTag(ReturnedName) = HostPlatformTag
        /\ ArchitectureTag(ReturnedName) = ActiveArchitecture
        /\ FamilyTag(ReturnedName)
              \in Range(_get_compatible_compiler_tags(environment, platform_system))

\* Entries the scan passes over: no match, or a match that is no directory
Ignored(entry) ==
    ~entry.isdir \/ ~re_match(PatternInUse, entry.name).matched

\* The listing without a name
Without(listing, name) == SelectSeq(listing, LAMBDA x : x # name)

\* What the loop of the latest call leaves in `closest` for a listing
ScanChoice(listing, entries) ==
    ScanListing(listing, Len(listing), PatternInUse, entries, ActiveMajor,
                is_debug_build(environment))

\* The latest call once more on other entries
ReplayOn(listing, entries) ==
    find_or_guess_library_directory(environment, platform_system, compiler_stdout,
                                    LibraryBuildsPath, entries, listing)

\* C20 Scan filtering: an entry that does not match the pattern, or matches
\* and is not a directory, is not the directory the scan returns, and with
\* the entry removed the scan chooses the same directory and the call ends
\* the same way, for every order of enumeration ('lib', which the fallback
\* looks up by name after the scan, is not removed from the call).
C20_ScanFiltering ==
    ScanRan =>
        \A entry \in library_builds :
            Ignored(entry) =>
                /\ FuzzyMatchReturned => ReturnedName # entry.name
                /\ \A listing \in Listings(library_builds) :
                      /\ ScanChoice(listing, library_builds)
                            = ScanChoice(Without(listing, entry.name),
                                         library_builds \ { entry })
                      /\ entry.name # << "lib" >> =>
                            LET with == ReplayOn(listing, library_builds)
                                without == ReplayOn(Without(listing, entry.name),
                                                    library_builds \ { entry })
                            IN /\ with.events = without.events
                               /\ with.hasPath = without.hasPath
                               /\ with.path = without.path

\* The root holds a file whose name matches and whose version is closer
\* than that of the directory returned
C20_Witness ==
    /\ FuzzyMatchReturned
    /\ \E entry \in library_builds :
          /\ ~entry.isdir
          /\ re_match(PatternInUse, entry.name).matched
          /\ Distance(entry.name) <= Distance(ReturnedName)
          /\ CandidateMinor(entry.name) > CandidateMinor(ReturnedName)

(***************************************************************************)
(* Properties of the version comparison                                    *)
(***************************************************************************)
\* A directory name of the convention with its minor version and its build
\* configuration written out
HasMinorSegment(name) == name[5] = "."

HasConfigSegment(name) == name[Len(name)] \in { "debug", "release" }

WithMinorSegment(name) ==
    IF HasMinorSegment(name) THEN name
    ELSE SubSeq(name, 1, 4) \o << ".", "0" >> \o SubSeq(name, 5, Len(name))

WithConfigSegment(name) ==
    IF HasConfigSegment(name) THEN name ELSE name \o << "-", "release" >>

WrittenOut(name) ==
    IF Len(name) < 7 THEN name ELSE WithConfigSegment(WithMinorSegment(name))

WrittenOutListing(listing) == [ i \in 1..Len(listing) |-> WrittenOut(listing[i]) ]

WrittenOutEntries(entries) ==
    { [name |-> WrittenOut(e.name), isdir |-> e.isdir] : e \in entries }

C22_MajorVersionFloor ==
    FuzzyMatchReturned => CandidateMajor(ReturnedName) >= 6

(***************************************************************************)
(* Properties of add_package                                               *)
(***************************************************************************)
PackageAdded == request.op = "add_package"

\* A resolver call of the trace returned None, raised, or returned a path
CallReturnedNone(call) == call.events[Len(call.events)].event = "return None"

CallRaised(call) == call.events[Len(call.events)].event = "raise"

CallReturned(call) == call.events[Len(call.events)].event = "return"

\* C23 No automatic retry, as stated: add_package invokes the resolver at
\* most once per request.
C23_NoAutomaticRetry ==
    PackageAdded => Len(request.trace) <= 1

\* C23 amended: add_package invokes the resolver on the package directory
\* and, exactly when that call returned None, once more on the directory
\* 'bin' below it, never more than twice; an exception of the resolver ends
\* the request at once with that exception, a second miss ends it with
\* FileNotFoundError, and a directory found by the second call is used.
C23_OneRetryInProjectLayout ==
    PackageAdded =>
        LET trace == request.trace IN
        /\ Len(trace) <= 2
        /\ Len(trace) = 2 <=> (Len(trace) >= 1 /\ CallReturnedNone(trace[1]))
        /\ Len(trace) = 2 => trace[2].path = path_join(trace[1].path, << "bin" >>)
        /\ \A i \in 1..Len(trace) :
              CallRaised(trace[i]) =>
                  /\ i = Len(trace)
                  /\ request.exc = trace[i].events[Len(trace[i].events)].exception
        /\ (Len(trace) = 2 /\ CallReturnedNone(trace[2])) =>
              request.exc = "FileNotFoundError: Could not find library directory for package"
        /\ ( /\ Len(trace) = 2
             /\ isdir(library_builds, << "bin" >>)
             /\ isdir(bin_builds, trace[1].events[1].needed) ) =>
              /\ request.exc = ""
              /\ environment["LIBPATH"][Len(environment["LIBPATH"])]
                    = path_join(trace[2].path, trace[1].events[1].needed)

\* The package layout held no library directory and the project layout did
C23_Witness ==
    /\ PackageAdded
    /\ Len(request.trace) = 2
    /\ CallReturned(request.trace[2])
    /\ request.exc = ""

\* A list of the environment, empty where the key is not set
ListOf(env, key) == IF Has(env, key) THEN env[key] ELSE << >>

\* The include directories add_package chooses from
IncludeCandidates(package_directory) ==
    { path_join(package_directory, name) :
        name \in { n \in { << "Include" >>, << "include" >>,
                            << package_directory[Len(package_directory)] >> } :
                     isdir(library_builds, n) } }

\* C29 add_package is all-or-nothing: a failed add_package leaves CPPPATH,
\* LIBPATH and LIBS as they were; a successful one appends the include
\* directory, the path the resolver returned and the library names.
C29_AddPackageAllOrNothing ==
    PackageAdded =>
        LET before == request.before
            trace == request.trace
            found == trace[Len(trace)].events[Len(trace[Len(trace)].events)].path
            names == LibrariesToAdd(request.args[1], request.args[2])
        IN
        /\ request.exc # "" =>
              \A key \in { "CPPPATH", "LIBPATH", "LIBS" } :
                  ListOf(environment, key) = ListOf(before, key)
        /\ request.exc = "" =>
              /\ \E include_directory \in IncludeCandidates(trace[1].path) :
                    ListOf(environment, "CPPPATH")
                        = ListOf(before, "CPPPATH") \o << include_directory >>
              /\ ListOf(environment, "LIBPATH") = ListOf(before, "LIBPATH") \o << found >>
              /\ ListOf(environment, "LIBS") = ListOf(before, "LIBS") \o names

\* add_source_directory has ended
SourcesAdded == request.op = "add_source_directory"

\* The files of the request: those given, or those enumerate_sources found
RequestedFiles ==
    IF request.args[2].isNone THEN enumerate_sources(source_tree, << None >>)
    ELSE request.args[2].files

\* The directory below which the variant paths of a request lie
IntermediateBuildDirectory ==
    os_path_join(<< request.before["INTERMEDIATE_DIRECTORY"] >>,
                 _get_variant_directory_name(request.before, platform_system,
                                             compiler_stdout).val)

\* C30 add_source_directory rejects a bad file list atomically: a request
\* that names a file not starting with the source directory never succeeds, a
\* request that ends with ValueError leaves _VARIANT_SOURCES as it was, and
\* a successful one leaves the previous list followed by the variant path
\* of each given file, in order.
C30_RejectsAtomically ==
    SourcesAdded =>
        /\ request.exc = "" =>
              /\ \A i \in 1..Len(RequestedFiles) :
                    startswith(RequestedFiles[i], request.args[1])
              /\ ListOf(environment, "_VARIANT_SOURCES")
                    = ListOf(request.before, "_VARIANT_SOURCES")
                      \o VariantPaths(IntermediateBuildDirectory, RequestedFiles)
        /\ request.exc = "ValueError" =>
              ListOf(environment, "_VARIANT_SOURCES")
                  = ListOf(request.before, "_VARIANT_SOURCES")

\* enumerate_sources or enumerate_headers has ended
Enumerated == request.op \in { "enumerate_sources", "enumerate_headers" }

\* The extensions the function of the request lists
ListedExtensions ==
    IF request.op = "enumerate_sources" THEN Range(source_file_extensions)
    ELSE Range(header_file_extensions)

\* C25 enumerate_sources and enumerate_headers return exactly the files of
\* the directory whose extension is one of the listed extensions; a file
\* with any other extension is never returned.
C25_ExactlyListedExtensions ==
    Enumerated =>
        Range(request.result)
            = { os_path_join(source_tree[i].root, source_tree[i].file_name) :
                  i \in { j \in 1..Len(source_tree) :
                            file_extension(source_tree[j].file_name) \in ListedExtensions } }

\* download_url_in_urlfile has ended
Downloaded == request.op = "download_url_in_urlfile"

\* The download from the url returns and leaves the target file present
Yields(url) == Len(url) = 1 /\ servers[url[1]] = "saves"

\* C24 download_url_in_urlfile tries the urls of the list file in file
\* order; it returns after the first url whose download succeeds and leaves
\* the target present, attempting no later url; a failing url never ends the
\* attempts; it raises FileNotFoundError exactly when no url yields the
\* target file.
C24_FirstWorkingDownload ==
    Downloaded =>
        LET urls == split_lines(url_file)
            attempted == request.trace
        IN
        /\ Len(attempted) <= Len(urls)
        /\ \A i \in 1..Len(attempted) : attempted[i] = urls[i]
        /\ \A i \in 1..(Len(attempted) - 1) : ~Yields(attempted[i])
        /\ request.exc = "" =>
              /\ attempted # << >>
              /\ Yields(attempted[Len(attempted)])
              /\ target_isfile
        /\ request.exc # "" =>
              /\ request.exc = "FileNotFoundError: Could not download file"
              /\ Len(attempted) = Len(urls)
              /\ ~target_isfile
        /\ request.exc # "" <=> ~\E i \in 1..Len(urls) : Yields(urls[i])

\* The file has CR LF line ends; the first url did not yield the target,
\* one download returned without the file and a later one was saved
C24_Witness ==
    /\ Downloaded
    /\ Len(request.trace) >= 2
    /\ ~Yields(request.trace[1])
    /\ \E i \in 1..Len(request.trace) :
          Len(request.trace[i]) = 1 /\ servers[request.trace[i][1]] = "returns without file"
    /\ \E i \in 1..Len(url_file) : url_file[i] = "\r"
    /\ request.exc = ""
    /\ target_isfile

\* get_build_directory_name has returned a name
EncoderReturned == probe.op = "get_build_directory_name" /\ probe.exc = ""

\* The resolver has returned a directory, having looked for a name
ResolverSucceeded == last.called /\ last.hasPath /\ last.hasName

\* C26 Encoder/resolver agreement: where both succeed, the exact directory
\* name find_or_guess_library_directory looks for is the name
\* get_build_directory_name returns.
C26_EncoderResolverAgreement ==
    (EncoderReturned /\ ResolverSucceeded) => last.matching_directory_name = probe.val

\* The outcomes a call may end in: a value, or one of the failures of the
\* toolchain, the version and the artifact
SpecifiedFailures ==
    { "FileNotFoundError: No C/C++ compiler found",
      "FileNotFoundError: C/C++ compiler could not be found",
      "FileNotFoundError" }

\* C28 Total outcome for every detectable version: for every version text
\* the extraction pattern yields, find_or_guess_library_directory and
\* get_build_directory_name end in a value or in one of the specified
\* failures, never in an index or number-parsing error.
C28_TotalOutcome ==
    /\ (last.called /\ HasRaised(last)) => RaisedException(last) \in SpecifiedFailures
    /\ (probe.op = "get_build_directory_name" /\ probe.exc # "") =>
          probe.exc \in SpecifiedFailures

\* The pattern _build_library_name_regex builds from the settings the
\* environment has now
FreshPattern ==
    _build_library_name_regex(WithoutPattern(environment), platform_system).val

\* C27 Pattern freshness: over resolver calls on one environment with
\* changes of DEBUG or TARGET_ARCH in between, each scan uses the pattern of
\* the environment's DEBUG and TARGET_ARCH at the time of the call; a release
\* build is never given a debug-tagged directory and no call is given a
\* directory of another architecture than the active one.
C27_PatternFreshness ==
    /\ ScanRan => PatternInUse = FreshPattern
    /\ (FuzzyMatchReturned /\ ~is_debug_build(environment)) =>
          ReturnedName[Len(ReturnedName)] # "debug"
    /\ FuzzyMatchReturned => ArchitectureTag(ReturnedName) = ActiveArchitecture
====
